---- MODULE Spec2Model ----
(***************************************************************************)
(* Model of the two-phase product harvesting pipeline:                     *)
(*   scrape_data/collect_all_urls.py      (Phase 1: URL discovery)         *)
(*   scrape_data/scrape_urls_products.py  (Phase 2: detail extraction)     *)
(*                                                                         *)
(* Strings are sequences of symbols.  A URL is a sequence of fragments     *)
(* ("https:", "/", "www.", "amazon.sg", "dp", "?"): every pattern the      *)
(* code searches for ("//", "/dp/", "?", ...) is a sequence of whole       *)
(* fragments, so startswith / in / split on the fragment sequence is       *)
(* startswith / in / split on the text.  A title is a sequence of          *)
(* characters.                                                             *)
(***************************************************************************)
EXTENDS Integers, Sequences, FiniteSets, TLC

VARIABLES
    \* ---- Phase 1 (collect_all_urls.main)
    pc,          \* "loop" | "written" | "crashed"
    bi, qi, ki,  \* indices of the brand, query type and keyword variant loops
    ai,          \* index of the next adapter to call for the current keyword
    page,        \* document held by the shared browser page: a sequence of anchors
    rows,        \* rows list
    seen_urls,   \* seen_urls set
    csv,         \* rows of all_product_urls.csv, written when pc = "written"
    returned,    \* history: every URL any adapter call has returned
    lastExc,     \* history: what ended the run when pc = "crashed": "goto" (an
                 \* exception leaving safe_goto) or "body" (one raised after it)
    afterFail,   \* history: "none" while every page load has succeeded, "failed"
                 \* once one has failed, "added" once an adapter call after that
                 \* one has appended a row
    \* ---- Phase 2 (scrape_urls_products.main)
    pc2,         \* "loop" | "written"
    idx,         \* enumerate index of the last url_rows entry taken, 0 before the first
    page2,       \* document held by the shared browser page
    rows_out,    \* rows_out list
    seen_keys,   \* seen_keys set
    out_csv,     \* rows of products_other_visual_dataset.csv
    taken,       \* history: the URLs of the url_rows entries taken so far
    failedUrls,  \* history: the URLs whose page load failed
    lastOutcome, \* history: how the loop body ended for the last entry
    \* ---- application of a pure function to an input
    fin,         \* the input
    fout         \* <<result>>, Pending (<<>>) before the application

vars1 == <<pc, bi, qi, ki, ai, page, rows, seen_urls, csv, returned, lastExc,
           afterFail>>
vars2 == <<pc2, idx, page2, rows_out, seen_keys, out_csv, taken, failedUrls, lastOutcome>>
varsF == <<fin, fout>>
vars == <<vars1, vars2, varsF>>

-----------------------------------------------------------------------------
(* Bounds of the model *)

NumBrands == 1     \* brands of BRANDS that the run enumerates
MaxVariants == 1   \* keyword variants per query type that the run enumerates
MaxAnchors == 1    \* anchors on one search-results page
MaxRows == 3       \* distinct URLs the sources serve in one run

-----------------------------------------------------------------------------
(* Generic string helpers (Python str operations on symbol sequences) *)

Min(a, b) == IF a <= b THEN a ELSE b

\* s.startswith(p)
StartsWith(s, p) == Len(s) >= Len(p) /\ SubSeq(s, 1, Len(p)) = p

\* s.endswith(p)
EndsWith(s, p) == Len(s) >= Len(p) /\ SubSeq(s, Len(s) - Len(p) + 1, Len(s)) = p

\* p in s
Contains(s, p) ==
    \E i \in 1..(Len(s) - Len(p) + 1) : SubSeq(s, i, i + Len(p) - 1) = p

\* s.split(sep)[0] for a one-symbol separator
SplitHead(s, sep) ==
    IF \E i \in 1..Len(s) : s[i] = sep
    THEN LET first == CHOOSE i \in 1..Len(s) :
                          s[i] = sep /\ \A j \in 1..(i - 1) : s[j] # sep
         IN  SubSeq(s, 1, first - 1)
    ELSE s

\* every ordering of a finite set (list(links): set iteration order)
Orderings(S) ==
    {f \in [1..Cardinality(S) -> S] : \A i, j \in 1..Cardinality(S) : i # j => f[i] # f[j]}

-----------------------------------------------------------------------------
(* CONFIG of collect_all_urls.py *)

AllBrands == <<"Brother", "Canon", "Epson", "HP", "Ricoh", "Samsung", "Xerox">>
BRANDS == SubSeq(AllBrands, 1, Min(NumBrands, Len(AllBrands)))

QUERY_TYPES == <<"printer", "toner", "ink">>

AllVariants(qtype) ==
    CASE qtype = "printer" -> <<"printer", "laser printer", "inkjet printer",
                                "all in one printer", "wireless printer">>
      [] qtype = "toner"   -> <<"toner", "toner cartridge", "laser toner", "drum unit">>
      [] qtype = "ink"     -> <<"ink", "ink cartridge", "ink bottle", "ink tank",
                                "photo printer ink">>
QUERY_VARIANTS(qtype) ==
    SubSeq(AllVariants(qtype), 1, Min(MaxVariants, Len(AllVariants(qtype))))

MAX_PRODUCTS_PER_VARIANT_PER_SOURCE == 50

\* the adapters in the order main calls them
Sources == <<"amazon", "ebay", "aliexpress", "harvey_norman", "challenger">>

\* "https://www.amazon.sg" etc.: the origins the adapters prepend
AMAZON_ORIGIN == <<"https:", "/", "/", "www.", "amazon.sg">>
ALIEXPRESS_ORIGIN == <<"https:", "/", "/", "www.", "aliexpress.com">>
HARVEY_ORIGIN == <<"https:", "/", "/", "www.", "harveynorman.com.sg">>
CHALLENGER_ORIGIN == <<"https:", "/", "/", "www.", "challenger.sg">>

-----------------------------------------------------------------------------
(* Search-results documents.  An anchor is [href, cls, text]: href is the   *)
(* attribute value (<<>> when the attribute is missing or empty: both are  *)
(* falsy for `if not href`), cls its set of CSS classes, text its inner    *)
(* text.                                                                   *)

Anchor(h, c, t) == [href |-> h, cls |-> c, text |-> t]

\* str.lower() on a symbol sequence: single characters, and the fragments of
\* the model written with upper-case letters
LowerSym(x) ==
    CASE x = "Brother" -> "brother" [] x = "Canon" -> "canon" [] x = "Epson" -> "epson"
      [] x = "HP" -> "hp" [] x = "Ricoh" -> "ricoh" [] x = "Samsung" -> "samsung"
      [] x = "Xerox" -> "xerox" [] x = "Logo" -> "logo"
      [] x = "A" -> "a" [] x = "B" -> "b" [] x = "C" -> "c" [] x = "D" -> "d"
      [] x = "E" -> "e" [] x = "F" -> "f" [] x = "G" -> "g" [] x = "H" -> "h"
      [] x = "I" -> "i" [] x = "J" -> "j" [] x = "K" -> "k" [] x = "L" -> "l"
      [] x = "M" -> "m" [] x = "N" -> "n" [] x = "O" -> "o" [] x = "P" -> "p"
      [] x = "Q" -> "q" [] x = "R" -> "r" [] x = "S" -> "s" [] x = "T" -> "t"
      [] x = "U" -> "u" [] x = "V" -> "v" [] x = "W" -> "w" [] x = "X" -> "x"
      [] x = "Y" -> "y" [] x = "Z" -> "z"
      [] OTHER -> x
Lower(s) == [i \in 1..Len(s) |-> LowerSym(s[i])]

-----------------------------------------------------------------------------
(* href normalisation, per adapter *)

\* if href.startswith("//"): "https:" + href / elif href.startswith("/"): origin + href
Resolve(href, origin) ==
    IF StartsWith(href, <<"/", "/">>) THEN <<"https:">> \o href
    ELSE IF StartsWith(href, <<"/">>) THEN origin \o href
    ELSE href

NormalizeAmazon(href) == AMAZON_ORIGIN \o SplitHead(href, "?")
NormalizeEbay(href) == SplitHead(href, "?")
NormalizeAliexpress(href) == SplitHead(Resolve(href, ALIEXPRESS_ORIGIN), "?")
NormalizeHarvey(href) == SplitHead(Resolve(href, HARVEY_ORIGIN), "?")
NormalizeChallenger(href) == SplitHead(Resolve(href, CHALLENGER_ORIGIN), "?")

Normalize(src, href) ==
    CASE src = "amazon" -> NormalizeAmazon(href)
      [] src = "ebay" -> NormalizeEbay(href)
      [] src = "aliexpress" -> NormalizeAliexpress(href)
      [] src = "harvey_norman" -> NormalizeHarvey(href)
      [] src = "challenger" -> NormalizeChallenger(href)

-----------------------------------------------------------------------------
(* The adapters' anchor selection and filtering loops *)

AmazonAnchors(pg) ==
    LET primary == SelectSeq(pg, LAMBDA a : "s-underline-link-text" \in a.cls)
    IN  IF primary # <<>> THEN primary
        ELSE SelectSeq(pg, LAMBDA a : "s-no-outline" \in a.cls)

RECURSIVE AmazonLoop(_, _, _, _)
AmazonLoop(anchors, i, links, cap) ==
    IF i > Len(anchors) THEN links
    ELSE LET href == anchors[i].href IN
         IF href = <<>> THEN AmazonLoop(anchors, i + 1, links, cap)
         ELSE LET links2 == IF Contains(href, <<"/", "dp", "/">>)
                            THEN links \cup {NormalizeAmazon(href)}
                            ELSE links
              IN  IF Cardinality(links2) >= cap THEN links2
                  ELSE AmazonLoop(anchors, i + 1, links2, cap)

collect_amazon_urls(pg, brand, cap) == AmazonLoop(AmazonAnchors(pg), 1, {}, cap)

EbayAnchors(pg) ==
    LET primary == SelectSeq(pg, LAMBDA a : "s-item__link" \in a.cls)
    IN  IF primary # <<>> THEN primary
        ELSE SelectSeq(pg, LAMBDA a : Contains(a.href, <<"/", "itm", "/">>))

RECURSIVE EbayLoop(_, _, _, _)
EbayLoop(anchors, i, links, cap) ==
    IF i > Len(anchors) THEN links
    ELSE LET href == anchors[i].href IN
         IF href = <<>> THEN EbayLoop(anchors, i + 1, links, cap)
         ELSE LET links2 == IF Contains(href, <<"/", "itm", "/">>)
                            THEN links \cup {NormalizeEbay(href)}
                            ELSE links
              IN  IF Cardinality(links2) >= cap THEN links2
                  ELSE EbayLoop(anchors, i + 1, links2, cap)

\* `if not anchors: return []` before the loop
collect_ebay_urls(pg, brand, cap) ==
    IF EbayAnchors(pg) = <<>> THEN {} ELSE EbayLoop(EbayAnchors(pg), 1, {}, cap)

AliexpressAnchors(pg) == SelectSeq(pg, LAMBDA a : Contains(a.href, <<"/", "item", "/">>))

RECURSIVE AliexpressLoop(_, _, _, _)
AliexpressLoop(anchors, i, links, cap) ==
    IF i > Len(anchors) THEN links
    ELSE LET href == anchors[i].href
             clean == NormalizeAliexpress(href)
         IN  IF href = <<>> THEN AliexpressLoop(anchors, i + 1, links, cap)
             ELSE IF ~Contains(clean, <<"aliexpress.com", "/", "item">>)
                  THEN AliexpressLoop(anchors, i + 1, links, cap)
             ELSE IF Cardinality(links \cup {clean}) >= cap THEN links \cup {clean}
             ELSE AliexpressLoop(anchors, i + 1, links \cup {clean}, cap)

collect_aliexpress_urls(pg, brand, cap) == AliexpressLoop(AliexpressAnchors(pg), 1, {}, cap)

HarveyAnchors(pg) == SelectSeq(pg, LAMBDA a : EndsWith(a.href, <<".html">>))

wanted_terms(brand) == {Lower(<<brand>>), <<"printer">>, <<"toner">>, <<"ink">>}

RECURSIVE HarveyLoop(_, _, _, _, _)
HarveyLoop(anchors, i, links, cap, brand) ==
    IF i > Len(anchors) THEN links
    ELSE LET href == anchors[i].href
             clean == NormalizeHarvey(href)
             haystack == Lower(clean) \o <<" ">> \o Lower(anchors[i].text)
         IN  IF href = <<>> THEN HarveyLoop(anchors, i + 1, links, cap, brand)
             ELSE IF ~Contains(clean, <<"harveynorman.com.sg">>)
                  THEN HarveyLoop(anchors, i + 1, links, cap, brand)
             ELSE IF ~(\E term \in wanted_terms(brand) : Contains(haystack, term))
                  THEN HarveyLoop(anchors, i + 1, links, cap, brand)
             ELSE IF Cardinality(links \cup {clean}) >= cap THEN links \cup {clean}
             ELSE HarveyLoop(anchors, i + 1, links \cup {clean}, cap, brand)

collect_harvey_urls(pg, brand, cap) == HarveyLoop(HarveyAnchors(pg), 1, {}, cap, brand)

ChallengerAnchors(pg) ==
    SelectSeq(pg, LAMBDA a : \/ Contains(a.href, <<"/", "product", "s", "/">>)
                             \/ Contains(a.href, <<"/", "product", "/">>))

RECURSIVE ChallengerLoop(_, _, _, _)
ChallengerLoop(anchors, i, links, cap) ==
    IF i > Len(anchors) THEN links
    ELSE LET href == anchors[i].href
             clean == NormalizeChallenger(href)
         IN  IF href = <<>> THEN ChallengerLoop(anchors, i + 1, links, cap)
             ELSE IF ~Contains(clean, <<"/", "product">>)
                  THEN ChallengerLoop(anchors, i + 1, links, cap)
             ELSE IF Cardinality(links \cup {clean}) >= cap THEN links \cup {clean}
             ELSE ChallengerLoop(anchors, i + 1, links \cup {clean}, cap)

collect_challenger_urls(pg, brand, cap) == ChallengerLoop(ChallengerAnchors(pg), 1, {}, cap)

\* the anchors an adapter's selectors give on pg
SelectedAnchors(src, pg) ==
    CASE src = "amazon" -> AmazonAnchors(pg)
      [] src = "ebay" -> EbayAnchors(pg)
      [] src = "aliexpress" -> AliexpressAnchors(pg)
      [] src = "harvey_norman" -> HarveyAnchors(pg)
      [] src = "challenger" -> ChallengerAnchors(pg)

\* the set an adapter returns when nothing raises
Collect(src, pg, brand, cap) ==
    CASE src = "amazon" -> collect_amazon_urls(pg, brand, cap)
      [] src = "ebay" -> collect_ebay_urls(pg, brand, cap)
      [] src = "aliexpress" -> collect_aliexpress_urls(pg, brand, cap)
      [] src = "harvey_norman" -> collect_harvey_urls(pg, brand, cap)
      [] src = "challenger" -> collect_challenger_urls(pg, brand, cap)

-----------------------------------------------------------------------------
(* Phase 1: collect_all_urls.main *)

\* anchors the search-results pages of each source are made of: root-relative,
\* protocol-relative, path-relative and absolute hrefs, with and without a
\* query string, and an anchor whose href is missing
SearchAnchors(src) ==
    CASE src = "amazon" ->
           { Anchor(<<"/", "dp", "/", "B01", "?", "k=v">>, {"s-underline-link-text"}, <<>>),
             Anchor(<<>>, {"s-underline-link-text"}, <<>>) }
      [] src = "ebay" ->
           { Anchor(<<"https:", "/", "/", "www.", "ebay.com", "/", "itm", "/", "1", "?", "k=v">>,
                    {"s-item__link"}, <<>>),
             Anchor(<<"/", "itm", "/", "1">>, {}, <<>>) }
      [] src = "aliexpress" ->
           { Anchor(<<"/", "/", "www.", "aliexpress.com", "/", "item", "/", "product", "s",
                      "/", "1", "?", "k=v">>, {}, <<>>) }
      [] src = "harvey_norman" ->
           { Anchor(<<"/", "x", "/", "printer", ".html">>, {}, <<>>),
             Anchor(<<"/", "p", "/", "9", ".html">>, {}, <<"Canon", " ", "G3010">>) }
      [] src = "challenger" ->
           { Anchor(<<"shop", "/", "product", "/", "2">>, {}, <<>>),
             Anchor(<<"https:", "/", "/", "www.", "aliexpress.com", "/", "item", "/",
                      "product", "s", "/", "1">>, {}, <<>>) }

RECURSIVE SeqsUpTo(_, _)
SeqsUpTo(S, n) ==
    IF n = 0 THEN {<<>>}
    ELSE SeqsUpTo(S, n - 1) \cup
         {Append(s, x) : s \in {t \in SeqsUpTo(S, n - 1) : Len(t) = n - 1}, x \in S}

\* documents the search URL of a source can serve
PagesAmazon == SeqsUpTo(SearchAnchors("amazon"), MaxAnchors)
PagesEbay == SeqsUpTo(SearchAnchors("ebay"), MaxAnchors)
PagesAliexpress == SeqsUpTo(SearchAnchors("aliexpress"), MaxAnchors)
PagesHarvey == SeqsUpTo(SearchAnchors("harvey_norman"), MaxAnchors)
PagesChallenger == SeqsUpTo(SearchAnchors("challenger"), MaxAnchors)
Pages(src) ==
    CASE src = "amazon" -> PagesAmazon
      [] src = "ebay" -> PagesEbay
      [] src = "aliexpress" -> PagesAliexpress
      [] src = "harvey_norman" -> PagesHarvey
      [] src = "challenger" -> PagesChallenger

\* outcome of one page.goto call
GotoOutcomes == {"ok", "raise"}

\* safe_goto: the first goto, on an exception one retry with wait_until="load",
\* on a second exception a print.  "loaded" | "failed"; "raised" is an
\* exception leaving safe_goto, which the code's two handlers never allow
safe_goto_raising(first, second) ==
    IF first = "ok" THEN "loaded"
    ELSE IF second = "ok" THEN "loaded"
    ELSE "raised"

safe_goto(first, second) ==
    IF first = "ok" THEN "loaded"
    ELSE IF second = "ok" THEN "loaded"
    ELSE "failed"

\* where an exception can arise in an adapter's body after safe_goto:
\* in page.query_selector_all, or in a.get_attribute on the first anchor
ExcPoints == {"none", "query", "attr"}

\* TRUE when the exception drawn leaves the adapter call: collect_ebay_urls
\* catches the Error of query_selector_all and returns []; get_attribute runs
\* only when the selectors gave an anchor
AdapterRaises(src, pg, exc) ==
    \/ exc = "query" /\ src # "ebay"
    \/ exc = "attr" /\ SelectedAnchors(src, pg) # <<>>

\* the set an adapter call returns when no exception leaves it
AdapterResult(src, pg, brand, cap, exc) ==
    IF exc = "query" /\ src = "ebay" THEN {} ELSE Collect(src, pg, brand, cap)

Row(u, src, brand, qtype) == [URL |-> u, Source |-> src, Brand |-> brand, QueryType |-> qtype]

\* for u in <adapter result>: if u in seen_urls: continue / seen_urls.add(u) / rows.append
\* state is [rows, seen]
RECURSIVE AddAllNoCheck(_, _, _, _, _)
AddAllNoCheck(st, us, src, brand, qtype) ==
    IF us = <<>> THEN st
    ELSE AddAllNoCheck([rows |-> Append(st.rows, Row(Head(us), src, brand, qtype)),
                        seen |-> st.seen \cup {Head(us)}],
                       Tail(us), src, brand, qtype)

RECURSIVE AddAll(_, _, _, _, _)
AddAll(st, us, src, brand, qtype) ==
    IF us = <<>> THEN st
    ELSE IF Head(us) \in st.seen THEN AddAll(st, Tail(us), src, brand, qtype)
    ELSE AddAll([rows |-> Append(st.rows, Row(Head(us), src, brand, qtype)),
                 seen |-> st.seen \cup {Head(us)}],
                Tail(us), src, brand, qtype)

\* A stopping controller's view of the rows (the code has none): the rows
\* accepted per category, and a configuration of targets that the plan can
\* meet before its last search task
CategoryCount(rws, qtype) == Cardinality({r \in 1..Len(rws) : rws[r].QueryType = qtype})
Targets == [printer |-> 1, toner |-> 1, ink |-> 0]
TargetsReached(rws) == \A q \in 1..Len(QUERY_TYPES) :
                           CategoryCount(rws, QUERY_TYPES[q]) >= Targets[QUERY_TYPES[q]]

\* the loops' step after the last adapter of a keyword variant: the next
\* variant, else the next query type, else the next brand, else the end
AfterVariantHalting(b, q, k, rws) ==
    IF TargetsReached(rws) THEN [pc |-> "write", bi |-> b, qi |-> q, ki |-> k]
    ELSE IF k < Len(QUERY_VARIANTS(QUERY_TYPES[q])) THEN [pc |-> "loop", bi |-> b, qi |-> q, ki |-> k + 1]
    ELSE IF q < Len(QUERY_TYPES) THEN [pc |-> "loop", bi |-> b, qi |-> q + 1, ki |-> 1]
    ELSE IF b < Len(BRANDS) THEN [pc |-> "loop", bi |-> b + 1, qi |-> 1, ki |-> 1]
    ELSE [pc |-> "write", bi |-> b, qi |-> q, ki |-> k]

AfterVariant(b, q, k, rws) ==
    IF k < Len(QUERY_VARIANTS(QUERY_TYPES[q])) THEN [pc |-> "loop", bi |-> b, qi |-> q, ki |-> k + 1]
    ELSE IF q < Len(QUERY_TYPES) THEN [pc |-> "loop", bi |-> b, qi |-> q + 1, ki |-> 1]
    ELSE IF b < Len(BRANDS) THEN [pc |-> "loop", bi |-> b + 1, qi |-> 1, ki |-> 1]
    ELSE [pc |-> "write", bi |-> b, qi |-> q, ki |-> k]

Pending == <<>>

\* the variables of a phase that a specification does not run
Idle1 ==
    /\ pc = "idle" /\ bi = 1 /\ qi = 1 /\ ki = 1 /\ ai = 1 /\ page = <<>> /\ rows = <<>>
    /\ seen_urls = {} /\ csv = <<>> /\ returned = {} /\ lastExc = "none"
    /\ afterFail = "none"
Idle2 ==
    /\ pc2 = "idle" /\ idx = 0 /\ page2 = <<>> /\ rows_out = <<>> /\ seen_keys = {}
    /\ out_csv = <<>> /\ taken = {} /\ failedUrls = {} /\ lastOutcome = "none"
IdleF == fin = <<>> /\ fout = Pending

Init ==
    /\ Idle2 /\ IdleF
    /\ pc = "loop"
    /\ bi = 1 /\ qi = 1 /\ ki = 1 /\ ai = 1
    /\ page = <<>>
    /\ rows = <<>>
    /\ seen_urls = {}
    /\ csv = <<>>
    /\ returned = {}
    /\ lastExc = "none"
    /\ afterFail = "none"

\* one adapter call of main and the loop over what it returns (lines 347-408)
AdapterStep(a) ==
    /\ pc = "loop"
    /\ ai = a
    /\ UNCHANGED <<vars2, varsF>>
    /\ \E first \in GotoOutcomes, second \in GotoOutcomes, served \in Pages(Sources[a]), exc \in ExcPoints :
        LET src == Sources[a]
            brand == BRANDS[bi]
            qtype == QUERY_TYPES[qi]
            nav == safe_goto(first, second)
        IN  \* a failed load leaves the previous document or an empty error page
            \E pg \in (IF nav = "loaded" THEN {served} ELSE {page, <<>>}) :
                /\ page' = pg
                /\ IF nav = "raised" \/ AdapterRaises(src, pg, exc)
                   THEN /\ pc' = "crashed"
                        /\ lastExc' = IF nav = "raised" THEN "goto" ELSE "body"
                        /\ UNCHANGED <<bi, qi, ki, ai, rows, seen_urls, csv, returned,
                                       afterFail>>
                   ELSE LET urls == AdapterResult(src, pg, brand,
                                                  MAX_PRODUCTS_PER_VARIANT_PER_SOURCE, exc)
                        IN  /\ Cardinality(returned \cup urls) <= MaxRows
                            /\ returned' = returned \cup urls
                            /\ lastExc' = "none"
                            /\ \E order \in Orderings(urls) :
                                LET st == AddAll([rows |-> rows, seen |-> seen_urls],
                                                 order, src, brand, qtype)
                                IN  /\ rows' = st.rows
                                    /\ seen_urls' = st.seen
                                    /\ afterFail' =
                                         IF afterFail = "failed" /\ Len(st.rows) > Len(rows)
                                         THEN "added"
                                         ELSE IF afterFail = "none" /\ nav = "failed"
                                         THEN "failed"
                                         ELSE afterFail
                            /\ ai' = a + 1
                            /\ UNCHANGED <<pc, bi, qi, ki, csv>>

AmazonStep == AdapterStep(1)
EbayStep == AdapterStep(2)
AliexpressStep == AdapterStep(3)
HarveyStep == AdapterStep(4)
ChallengerStep == AdapterStep(5)

\* time.sleep(0.7) and the three for loops' advance (lines 332-411)
NextVariant ==
    /\ pc = "loop"
    /\ ai = Len(Sources) + 1
    /\ LET nxt == AfterVariant(bi, qi, ki, rows)
       IN  pc' = nxt.pc /\ bi' = nxt.bi /\ qi' = nxt.qi /\ ki' = nxt.ki
    /\ ai' = 1
    /\ UNCHANGED <<page, rows, seen_urls, csv, returned, lastExc, afterFail>>
    /\ UNCHANGED <<vars2, varsF>>

\* browser.close() and the csv write (lines 413-421)
WriteCsv ==
    /\ pc = "write"
    /\ csv' = rows
    /\ pc' = "written"
    /\ UNCHANGED <<bi, qi, ki, ai, page, rows, seen_urls, returned, lastExc, afterFail>>
    /\ UNCHANGED <<vars2, varsF>>

Next ==
    \/ AmazonStep
    \/ EbayStep
    \/ AliexpressStep
    \/ HarveyStep
    \/ ChallengerStep
    \/ NextVariant
    \/ WriteCsv

Spec == Init /\ [][Next]_vars

-----------------------------------------------------------------------------
(* Helpers of scrape_urls_products.py *)

WhiteSpace == {" "}

\* str.strip()
RECURSIVE Strip(_)
Strip(s) ==
    IF s = <<>> THEN s
    ELSE IF Head(s) \in WhiteSpace THEN Strip(Tail(s))
    ELSE IF s[Len(s)] \in WhiteSpace THEN Strip(SubSeq(s, 1, Len(s) - 1))
    ELSE s

printer_keywords ==
    { <<"p", "r", "i", "n", "t", "e", "r">>,
      <<"l", "a", "s", "e", "r", "j", "e", "t">>,
      <<"i", "n", "k", "j", "e", "t">>,
      <<"m", "u", "l", "t", "i", "f", "u", "n", "c", "t", "i", "o", "n">>,
      <<"a", "l", "l", "-", "i", "n", "-", "o", "n", "e">>,
      <<"m", "f", "p">> }
toner_keywords ==
    { <<"t", "o", "n", "e", "r">>,
      <<"d", "r", "u", "m", " ", "u", "n", "i", "t">>,
      <<"l", "a", "s", "e", "r", " ", "c", "a", "r", "t", "r", "i", "d", "g", "e">>,
      <<"t", "o", "n", "e", "r", " ", "c", "a", "r", "t", "r", "i", "d", "g", "e">> }
ink_keywords ==
    { <<"i", "n", "k">>,
      <<"i", "n", "k", " ", "b", "o", "t", "t", "l", "e">>,
      <<"i", "n", "k", " ", "t", "a", "n", "k">>,
      <<"i", "n", "k", " ", "c", "a", "r", "t", "r", "i", "d", "g", "e">> }

\* the toner group tested before the printer group
classify_toner_first(title) ==
    IF title = <<>> THEN "Other"
    ELSE LET t == Lower(title)
         IN  IF \E k \in toner_keywords : Contains(t, k) THEN "Toner"
             ELSE IF \E k \in printer_keywords : Contains(t, k) THEN "Printer"
             ELSE IF \E k \in ink_keywords : Contains(t, k) THEN "Ink"
             ELSE "Other"

classify_product_type(title) ==
    IF title = <<>> THEN "Other"
    ELSE LET t == Lower(title)
         IN  IF \E k \in printer_keywords : Contains(t, k) THEN "Printer"
             ELSE IF \E k \in toner_keywords : Contains(t, k) THEN "Toner"
             ELSE IF \E k \in ink_keywords : Contains(t, k) THEN "Ink"
             ELSE "Other"

MAX_N == 4

\* padding without the truncation to max_n
pad_images_no_truncation(imgs) ==
    LET kept == SelectSeq(imgs, LAMBDA i : i # <<>>)
    IN  kept \o [k \in 1..(MAX_N - Len(kept)) |-> <<>>]

\* imgs = [i for i in imgs if i]; imgs = imgs[:max_n]; pad with "" to max_n
pad_images(imgs) ==
    LET kept == SelectSeq(imgs, LAMBDA i : i # <<>>)
        cut == SubSeq(kept, 1, Min(MAX_N, Len(kept)))
    IN  cut \o [k \in 1..(MAX_N - Len(cut)) |-> <<>>]

\* list(dict.fromkeys(imgs)): the first occurrence of each entry, in order
RECURSIVE DedupeKeepFirst(_)
DedupeKeepFirst(imgs) ==
    IF imgs = <<>> THEN <<>>
    ELSE LET front == DedupeKeepFirst(SubSeq(imgs, 1, Len(imgs) - 1))
             last == imgs[Len(imgs)]
         IN  IF \E i \in 1..Len(front) : front[i] = last THEN front ELSE Append(front, last)

(* A detail document:                                                      *)
(*   ogTitle, ogImage  content of <meta property="og:title"/"og:image">,   *)
(*                     <<>> when the tag or its content is missing         *)
(*   productTitle      text of #productTitle, <<>> when missing            *)
(*   h1s               text of the first element of each of scrape_ebay's  *)
(*                     four title selectors, <<>> when none matches        *)
(*   docTitle          <title>: kind "absent" (soup.title is None),        *)
(*                     "nostring" (soup.title.string is None) or "text"    *)
(*   landing           img#landingImage: present, src and                  *)
(*                     data-a-dynamic-image (kind "absent", "invalid" for  *)
(*                     what json.loads(...).keys() raises on, or "keys")   *)
(*   active            src of div.ux-image-carousel-item.active img        *)
(*   imgs              src of every <img>, in document order               *)

\* get_og_title_and_image
get_og_title_and_image(doc) == [title |-> Strip(doc.ogTitle), img |-> Strip(doc.ogImage)]

Extracted(t, i) == [raised |-> FALSE, title |-> t, imgs |-> i]
Raised == [raised |-> TRUE, title |-> <<>>, imgs |-> <<>>]

scrape_amazon(doc) ==
    LET og == get_og_title_and_image(doc)
        title == IF og.title # <<>> THEN og.title ELSE Strip(doc.productTitle)
        main == doc.landing
        imgs1 == IF main.present /\ main.src # <<>> THEN <<main.src>> ELSE <<>>
        imgs2 == IF main.present /\ main.dyn.kind = "keys" THEN imgs1 \o main.dyn.keys
                 ELSE imgs1
        imgs3 == IF og.img # <<>> /\ ~(\E i \in 1..Len(imgs2) : imgs2[i] = og.img)
                 THEN Append(imgs2, og.img)
                 ELSE imgs2
    IN  Extracted(title, pad_images(imgs3))

\* title = soup.title.string.strip() of scrape_lazada and scrape_generic
TitleFallback(og, doc) ==
    IF og.title # <<>> \/ doc.docTitle.kind = "absent" THEN Extracted(og.title, <<>>)
    ELSE IF doc.docTitle.kind = "nostring" THEN Raised
    ELSE Extracted(Strip(doc.docTitle.text), <<>>)

scrape_lazada(doc) ==
    LET og == get_og_title_and_image(doc)
        t == TitleFallback(og, doc)
        imgs1 == SelectSeq(doc.imgs,
                     LAMBDA src : /\ \/ Contains(Lower(src), <<"slatic.net">>)
                                     \/ Contains(Lower(src), <<"lazada">>)
                                  /\ ~Contains(Lower(src), <<"sprite">>)
                                  /\ ~Contains(Lower(src), <<"logo">>))
        imgs2 == IF og.img # <<>> THEN <<og.img>> \o imgs1 ELSE imgs1
    IN  IF t.raised THEN Raised ELSE Extracted(t.title, pad_images(imgs2))

\* the first selector of scrape_ebay whose element has text
RECURSIVE FirstText(_)
FirstText(texts) ==
    IF texts = <<>> THEN <<>>
    ELSE IF Strip(Head(texts)) # <<>> THEN Strip(Head(texts))
    ELSE FirstText(Tail(texts))

scrape_ebay(doc) ==
    LET og == get_og_title_and_image(doc)
        title == IF og.title # <<>> THEN og.title ELSE FirstText(doc.h1s)
        imgs1 == IF doc.active # <<>> THEN <<doc.active>> ELSE <<>>
        imgs2 == imgs1 \o SelectSeq(doc.imgs, LAMBDA src : Contains(src, <<"i.ebayimg.com">>))
        imgs3 == IF og.img # <<>> THEN <<og.img>> \o imgs2 ELSE imgs2
    IN  Extracted(title, pad_images(DedupeKeepFirst(imgs3)))

\* src.startswith("http"): the scheme fragments of the model that begin with it
StartsWithHttp(src) == src # <<>> /\ src[1] \in {"http://", "https://"}

scrape_generic(doc) ==
    LET og == get_og_title_and_image(doc)
        t == TitleFallback(og, doc)
        imgs1 == SelectSeq(doc.imgs, StartsWithHttp)
        imgs2 == IF og.img # <<>> THEN <<og.img>> \o imgs1 ELSE imgs1
    IN  IF t.raised THEN Raised ELSE Extracted(t.title, pad_images(imgs2))

\* the dispatch of main on source
Scrape(source, doc) ==
    CASE source = "amazon" -> scrape_amazon(doc)
      [] source = "lazada" -> scrape_lazada(doc)
      [] source = "ebay" -> scrape_ebay(doc)
      [] OTHER -> scrape_generic(doc)

-----------------------------------------------------------------------------
(* Phase 2: scrape_urls_products.main *)

MaxUrls == 3       \* rows of all_product_urls.csv

Doc(ogT, ogI, pT, h1, dT, land, act, im) ==
    [ogTitle |-> ogT, ogImage |-> ogI, productTitle |-> pT, h1s |-> h1, docTitle |-> dT,
     landing |-> land, active |-> act, imgs |-> im]

NoTitleTag == [kind |-> "absent", text |-> <<>>]
EmptyTitleTag == [kind |-> "nostring", text |-> <<>>]
TitleTag(t) == [kind |-> "text", text |-> t]
NoLanding == [present |-> FALSE, src |-> <<>>, dyn |-> [kind |-> "absent", keys |-> <<>>]]
Landing(src, kind, keys) == [present |-> TRUE, src |-> src, dyn |-> [kind |-> kind, keys |-> keys]]

\* the document of a page that has loaded nothing
BlankDoc == Doc(<<>>, <<>>, <<>>, <<>>, NoTitleTag, NoLanding, <<>>, <<>>)

ImgA == <<"https://", "m.media-amazon.com", "/", "a", ".jpg">>
ImgB == <<"https://", "m.media-amazon.com", "/", "b", ".jpg">>
ImgC == <<"https://", "m.media-amazon.com", "/", "c", ".jpg">>
ImgE == <<"https://", "i.ebayimg.com", "/", "e", ".jpg">>
ImgL == <<"https://", "img.", "slatic.net", "/", "l", ".jpg">>
ImgLogo == <<"https://", "img.", "slatic.net", "/", "Logo", ".png">>
ImgRel == <<"/", "static", "/", "r", ".png">>

\* documents the detail URLs of the model serve
DetailDocs ==
    { Doc(<<"H", "P", " ", "P", "r", "i", "n", "t", "e", "r">>, ImgA, <<>>, <<>>, NoTitleTag,
          Landing(ImgA, "keys", <<ImgA, ImgB>>), ImgE, <<ImgE, ImgRel>>),
      Doc(<<" ", "T", "o", "n", "e", "r", " ">>, ImgB, <<>>, <<>>, NoTitleTag, NoLanding, <<>>, <<>>),
      Doc(<<>>, <<>>, <<"I", "n", "k">>, <<<<>>, <<"I", "n", "k">>, <<>>, <<>>>>,
          TitleTag(<<"I", "n", "k", " ">>), NoLanding, <<>>, <<ImgE, ImgLogo, ImgL>>),
      Doc(<<>>, <<>>, <<>>, <<>>, EmptyTitleTag, NoLanding, <<>>, <<ImgE>>),
      Doc(<<"U", "S", "B", " ", "c", "a", "b", "l", "e">>, ImgC, <<>>, <<>>, NoTitleTag, NoLanding, <<>>, <<>>) }

\* Source values of the input rows: the three extractors main names and one
\* of Phase 1's other sources, which main sends to scrape_generic
DetailSources == {"amazon", "lazada", "ebay", "challenger"}

\* URL of the n-th input row: the rows Phase 1 writes have distinct URLs
InputUrl(n) == <<"https:", "/", "/", "shop", "/", "p", n>>

\* scrape_urls_products.safe_goto: as in Phase 1, with the exception printed
safe_goto_detail(first, second) ==
    IF first = "ok" THEN "loaded"
    ELSE IF second = "ok" THEN "loaded"
    ELSE "failed"

\* key = (source, brand, title.strip())
record_key(source, brand, title) == <<source, brand, Strip(title)>>

\* the check `if key in seen_keys` left out
IsDuplicateNever(key, seen) == FALSE

IsDuplicate(key, seen) == key \in seen

\* how the loop body ends for a row, given what the extractor gave
Outcome(r, source, brand, seen) ==
    IF r.raised THEN "error"
    ELSE IF \A i \in 1..Len(r.imgs) : r.imgs[i] = <<>> THEN "noimages"
    ELSE IF classify_product_type(r.title) = "Other" THEN "other"
    ELSE IF IsDuplicate(record_key(source, brand, r.title), seen) THEN "duplicate"
    ELSE "added"

Record(url, source, brand, n, r) ==
    [URL |-> url, Source |-> source, Brand |-> brand, Product_ID |-> <<source, brand, n>>,
     Product_Title |-> r.title, Product_Type |-> classify_product_type(r.title),
     Image_URL_1 |-> r.imgs[1], Image_URL_2 |-> r.imgs[2],
     Image_URL_3 |-> r.imgs[3], Image_URL_4 |-> r.imgs[4]]

Init2 ==
    /\ Idle1 /\ IdleF
    /\ pc2 = "loop"
    /\ idx = 0
    /\ page2 = BlankDoc
    /\ rows_out = <<>>
    /\ seen_keys = {}
    /\ out_csv = <<>>
    /\ taken = {}
    /\ failedUrls = {}
    /\ lastOutcome = "none"

\* one iteration of the loop over url_rows (lines 236-289); the row taken is
\* any row Phase 1 can have written at this place of the file
ScrapeStep ==
    /\ pc2 = "loop"
    /\ idx < MaxUrls
    /\ \E source \in DetailSources, b \in 1..Len(BRANDS), first \in GotoOutcomes,
          second \in GotoOutcomes, served \in DetailDocs, exc \in {"none", "raise"} :
        LET url == InputUrl(idx + 1)
            brand == BRANDS[b]
            nav == safe_goto_detail(first, second)
        IN  \* a failed load leaves the previous document or an empty one
            \E doc \in (IF nav = "loaded" THEN {served} ELSE {page2, BlankDoc}) :
                LET r == IF exc = "raise" THEN Raised ELSE Scrape(source, doc)
                    outcome == Outcome(r, source, brand, seen_keys)
                IN  /\ page2' = doc
                    /\ taken' = taken \cup {url}
                    /\ failedUrls' = IF nav = "failed" THEN failedUrls \cup {url}
                                     ELSE failedUrls
                    /\ lastOutcome' = outcome
                    /\ idx' = idx + 1
                    /\ IF outcome = "added"
                       THEN /\ seen_keys' = seen_keys \cup {record_key(source, brand, r.title)}
                            /\ rows_out' = Append(rows_out, Record(url, source, brand, idx + 1, r))
                       ELSE UNCHANGED <<seen_keys, rows_out>>
    /\ UNCHANGED <<pc2, out_csv>>
    /\ UNCHANGED <<vars1, varsF>>

\* the end of url_rows: browser.close() and the csv write (lines 291-303)
WriteOutput ==
    /\ pc2 = "loop"
    /\ out_csv' = rows_out
    /\ pc2' = "written"
    /\ UNCHANGED <<idx, page2, rows_out, seen_keys, taken, failedUrls, lastOutcome>>
    /\ UNCHANGED <<vars1, varsF>>

Next2 ==
    \/ ScrapeStep
    \/ WriteOutput

SpecScrape == Init2 /\ [][Next2]_vars

-----------------------------------------------------------------------------
(* Properties of Phase 1 *)

RowUrls(rws) == {rws[i].URL : i \in 1..Len(rws)}

\* the loops stand at the plan's last search task
AtLastTask ==
    /\ bi = Len(BRANDS)
    /\ qi = Len(QUERY_TYPES)
    /\ ki = Len(QUERY_VARIANTS(QUERY_TYPES[Len(QUERY_TYPES)]))

\* C1: the rows hold no URL twice, there is exactly one row per distinct URL
\* the adapters have returned, the csv written is these rows, and a row once
\* appended keeps its place and its Source/Brand/QueryType tags whatever is
\* returned later.
C1_UrlDedup ==
    /\ [](/\ \A i, j \in 1..Len(rows) : i # j => rows[i].URL # rows[j].URL
          /\ Len(rows) = Cardinality(returned)
          /\ RowUrls(rows) = returned
          /\ seen_urls = returned
          /\ csv = (IF pc = "written" THEN rows ELSE <<>>))
    /\ [][/\ Len(rows') >= Len(rows)
          /\ SubSeq(rows', 1, Len(rows)) = rows]_vars

SharedItemUrl ==
    <<"https:", "/", "/", "www.", "aliexpress.com", "/", "item", "/", "product", "s", "/", "1">>

\* C1 witness: the csv holds the shared item URL once, tagged by the aliexpress
\* call of the first task that found it, after the challenger call of the
\* last task has returned it again from the document in the page.
C1_Witness ==
    /\ pc = "written"
    /\ SharedItemUrl \in collect_challenger_urls(page, BRANDS[bi], MAX_PRODUCTS_PER_VARIANT_PER_SOURCE)
    /\ \E i \in 1..Len(csv) :
          csv[i] = Row(SharedItemUrl, "aliexpress", BRANDS[1], QUERY_TYPES[1])
    /\ Len(csv) = MaxRows

C4_NavFailureIsolated ==
    /\ lastExc # "goto"
    /\ (pc = "crashed" => lastExc = "body")
    /\ (pc # "crashed" => lastExc = "none")
    /\ (pc = "written" => (AtLastTask /\ csv = rows))

\* C4 witness: the csv is written after a load failed and a later adapter
\* call added a row.
C4_Witness == pc = "written" /\ afterFail = "added" /\ Len(csv) > 0

\* C5 as stated: no exception raised inside an adapter call ends the run.
C5_NoAdapterExceptionEndsRun == pc # "crashed"

\* absolute, scheme-qualified, one origin, no query string
IsCanonical(u) ==
    /\ Len(u) >= 5
    /\ u[1] \in {"http:", "https:"}
    /\ u[2] = "/" /\ u[3] = "/" /\ u[4] # "/"
    /\ \A i \in 2..Len(u) : u[i] \notin {"http:", "https:"}
    /\ \A i \in 1..Len(u) : u[i] # "?"

\* C9 as stated: every URL Phase 1 persists is canonical.
C9_PersistedUrlsCanonical == \A i \in 1..Len(rows) : IsCanonical(rows[i].URL)

-----------------------------------------------------------------------------
(* Properties of Phase 2 *)

RecordKeyOf(r) == <<r.Source, r.Brand, Strip(r.Product_Title)>>

\* C2: rows_out holds at most one record per (source, brand, trimmed title);
\* a row whose extraction gives a key already recorded is discarded, and the
\* records already in rows_out, in input order, are never changed.
C2_RecordDedup ==
    /\ [](/\ \A i, j \in 1..Len(rows_out) :
                i # j => RecordKeyOf(rows_out[i]) # RecordKeyOf(rows_out[j])
          /\ \A i, j \in 1..Len(rows_out) :
                i < j => rows_out[i].Product_ID[3] < rows_out[j].Product_ID[3]
          /\ seen_keys = {RecordKeyOf(rows_out[i]) : i \in 1..Len(rows_out)}
          /\ out_csv = (IF pc2 = "written" THEN rows_out ELSE <<>>))
    /\ [][/\ Len(rows_out') >= Len(rows_out)
          /\ SubSeq(rows_out', 1, Len(rows_out)) = rows_out
          /\ (lastOutcome' = "duplicate" /\ idx' # idx => rows_out' = rows_out)]_vars

\* C2 witness: the second row gave the key of the record of the first row,
\* from a title that differs from it by surrounding whitespace in the page,
\* and was discarded.
C2_Witness ==
    /\ idx = 2
    /\ lastOutcome = "duplicate"
    /\ Len(rows_out) = 1
    /\ rows_out[1].Product_ID[3] = 1
    /\ rows_out[1].Product_Title = <<"T", "o", "n", "e", "r">>
    /\ page2.ogTitle = <<" ", "T", "o", "n", "e", "r", " ">>

\* C6 as stated: no record in rows_out has the URL of a row whose page could
\* not be loaded.
C6_NoRecordForFailedLoad ==
    \A i \in 1..Len(rows_out) : rows_out[i].URL \notin failedUrls

-----------------------------------------------------------------------------
(* Detail extraction as a function of the source and the document *)

MaxImgs == 4       \* <img> elements of a detail document

ImgSrcs == {ImgE, ImgL, ImgRel}

ExtractDocs ==
    { Doc(ogT, ogI, <<>>, <<>>, dT, land, act, im) :
        ogT \in {<<>>, <<"H", "P", " ", "P", "r", "i", "n", "t", "e", "r">>},
        ogI \in {<<>>, ImgA},
        dT \in {NoTitleTag, EmptyTitleTag},
        land \in {NoLanding, Landing(ImgA, "absent", <<>>), Landing(<<>>, "invalid", <<>>),
                  Landing(ImgB, "keys", <<ImgB, <<>>, ImgC, ImgE, ImgL>>)},
        act \in {<<>>, ImgC},
        im \in SeqsUpTo(ImgSrcs, MaxImgs) }

InitExtract ==
    /\ Idle1 /\ Idle2
    /\ fin \in [source : DetailSources, doc : ExtractDocs]
    /\ fout = Pending

\* title, imgs = scrape_<source>(page, url) on a page that has loaded doc
ApplyExtract ==
    /\ fout = Pending
    /\ fout' = <<Scrape(fin.source, fin.doc)>>
    /\ UNCHANGED <<fin, vars1, vars2>>

SpecExtract == InitExtract /\ [][ApplyExtract]_vars

\* C7: every extractor returns exactly 4 image slots, the non-empty entries
\* first and every slot after them the empty string.
C7_FourImageSlots ==
    (fout # Pending /\ ~fout[1].raised) =>
        /\ Len(fout[1].imgs) = 4
        /\ \A i, j \in 1..Len(fout[1].imgs) :
              (i < j /\ fout[1].imgs[i] = <<>>) => fout[1].imgs[j] = <<>>

\* C7 witness: more than 4 candidates (og:image and four <img>) cut to 4.
C7_Witness ==
    /\ fout # Pending
    /\ fin.source = "challenger"
    /\ fin.doc.ogImage # <<>>
    /\ fin.doc.imgs = <<ImgE, ImgL, ImgE, ImgL>>
    /\ fout[1].imgs = <<ImgA, ImgE, ImgL, ImgE>>

-----------------------------------------------------------------------------
(* classify_product_type as a function of the title *)

MaxWords == 2      \* words of a title

Vocabulary ==
    { <<"H", "P">>,
      <<"P", "r", "i", "n", "t", "e", "r">>,
      <<"L", "a", "s", "e", "r", "J", "e", "t">>,
      <<"T", "o", "n", "e", "r">>,
      <<"d", "r", "u", "m">>,
      <<"u", "n", "i", "t">>,
      <<"I", "n", "k">>,
      <<"L", "i", "n", "k">>,
      <<"c", "a", "b", "l", "e">>,
      <<"A", "l", "l", "-", "i", "n", "-", "O", "n", "e">> }

RECURSIVE Join(_)
Join(ws) == IF ws = <<>> THEN <<>>
            ELSE IF Len(ws) = 1 THEN ws[1]
            ELSE ws[1] \o <<" ">> \o Join(Tail(ws))

\* the titles: <<>> (empty or missing) and the words joined by spaces
Titles == {Join(ws) : ws \in SeqsUpTo(Vocabulary, MaxWords)}

InitClassify ==
    /\ Idle1 /\ Idle2
    /\ fin \in Titles
    /\ fout = Pending

ApplyClassify ==
    /\ fout = Pending
    /\ fout' = <<classify_product_type(fin)>>
    /\ UNCHANGED <<fin, vars1, vars2>>

SpecClassify == InitClassify /\ [][ApplyClassify]_vars

\* title mentions a keyword of the group, in any letter case
Mentions(title, group) ==
    \E k \in group : \E i \in 1..(Len(title) - Len(k) + 1) :
        \A j \in 1..Len(k) : LowerSym(title[i + j - 1]) = k[j]

\* C8: Printer when a printer keyword occurs, else Toner when a toner keyword
\* occurs, else Ink when an ink keyword occurs, else Other; Other for the
\* empty title.
C8_ClassifierPrecedence ==
    fout # Pending =>
        /\ fout[1] \in {"Printer", "Toner", "Ink", "Other"}
        /\ (fout[1] = "Printer") = Mentions(fin, printer_keywords)
        /\ (fout[1] = "Toner") = (/\ ~Mentions(fin, printer_keywords)
                                  /\ Mentions(fin, toner_keywords))
        /\ (fout[1] = "Ink") = (/\ ~Mentions(fin, printer_keywords)
                                /\ ~Mentions(fin, toner_keywords)
                                /\ Mentions(fin, ink_keywords))
        /\ (fin = <<>> => fout[1] = "Other")

\* C8 witness: "Toner Printer" matches a toner and a printer keyword and is
\* classified Printer.
C8_Witness ==
    /\ fin = <<"T", "o", "n", "e", "r", " ", "P", "r", "i", "n", "t", "e", "r">>
    /\ fout = <<"Printer">>

-----------------------------------------------------------------------------
(* href normalisation as a function of the source and the href *)

UrlHosts == { <<"www.", "amazon.sg">>, <<"www.", "ebay.com">>, <<"www.", "aliexpress.com">>,
              <<"www.", "harveynorman.com.sg">>, <<"www.", "challenger.sg">> }
UrlPaths == { <<"dp", "/", "B01">>, <<"itm", "/", "1">>, <<"item", "/", "2", ".html">>,
              <<"product", "s", "/", "3">> }
UrlQueries == { <<>>, <<"?", "k=v">> }

\* path-relative, root-relative, protocol-relative and absolute hrefs
Hrefs ==
    {p \o q : p \in UrlPaths, q \in UrlQueries}
    \cup {<<"/">> \o p \o q : p \in UrlPaths, q \in UrlQueries}
    \cup {<<"/", "/">> \o h \o <<"/">> \o p \o q : h \in UrlHosts, p \in UrlPaths, q \in UrlQueries}
    \cup {<<"https:", "/", "/">> \o h \o <<"/">> \o p \o q :
             h \in UrlHosts, p \in UrlPaths, q \in UrlQueries}

SourceSet == {Sources[a] : a \in 1..Len(Sources)}

InitNormalize ==
    /\ Idle1 /\ Idle2
    /\ fin \in [src : SourceSet, href : Hrefs]
    /\ fout = Pending

\* the adapter's normalisation applied to the href, and to its own result
ApplyNormalize ==
    /\ fout = Pending
    /\ fout' = <<[once |-> Normalize(fin.src, fin.href),
                  twice |-> Normalize(fin.src, Normalize(fin.src, fin.href))]>>
    /\ UNCHANGED <<fin, vars1, vars2>>

SpecNormalize == InitNormalize /\ [][ApplyNormalize]_vars

\* the adapter of src keeps an anchor with this href as a product URL
ValidHref(src, href) ==
    Collect(src, <<Anchor(href, {"s-underline-link-text", "s-item__link"}, <<"printer">>)>>,
            "HP", MAX_PRODUCTS_PER_VARIANT_PER_SOURCE) # {}

\* C10 as stated: for every source and every href its adapter keeps,
\* normalising the normalised URL changes nothing.
C10_NormalizeIdempotent ==
    (fout # Pending /\ ValidHref(fin.src, fin.href)) => fout[1].twice = fout[1].once

-----------------------------------------------------------------------------
(* One call of an adapter's collect_*_urls on a rendered search page *)

MaxCap == 2             \* largest max_products passed to an adapter
MaxPageAnchors == 2     \* anchors on the search page of one call

CollectBrands == {AllBrands[1], AllBrands[2]}
CollectPages(src) == SeqsUpTo(SearchAnchors(src), MaxPageAnchors)

InitCollect ==
    /\ Idle1 /\ Idle2
    /\ \E src \in SourceSet :
         fin \in [src : {src}, pg : CollectPages(src), brand : CollectBrands, cap : 0..MaxCap]
    /\ fout = Pending

\* `return list(links)`: the set in some order
ApplyCollect ==
    /\ fout = Pending
    /\ \E order \in Orderings(Collect(fin.src, fin.pg, fin.brand, fin.cap)) :
         fout' = <<order>>
    /\ UNCHANGED <<fin, vars1, vars2>>

SpecCollect == InitCollect /\ [][ApplyCollect]_vars

\* C11 as stated: for every adapter, every cap >= 0 and every list of anchors,
\* the returned URLs are pairwise distinct and at most cap in number, and the
\* result is empty when no anchor matches any selector of the adapter.
C11_PerTaskCap ==
    fout # Pending =>
        LET r == fout[1] IN
        /\ \A i, j \in 1..Len(r) : i # j => r[i] # r[j]
        /\ Len(r) <= fin.cap
        /\ (SelectedAnchors(fin.src, fin.pg) = <<>> => r = <<>>)

-----------------------------------------------------------------------------
(* Image candidates of a detail document, in the order C12 names *)

\* primary image(s) of the source, then the keys of the alternate-resolution
\* manifest where the source has one, then og:image
DiscoveryCandidates(source, doc) ==
    LET og == get_og_title_and_image(doc).img
        primary ==
            CASE source = "amazon" ->
                   IF doc.landing.present THEN <<doc.landing.src>> ELSE <<>>
              [] source = "ebay" ->
                   <<doc.active>> \o
                   SelectSeq(doc.imgs, LAMBDA src : Contains(src, <<"i.ebayimg.com">>))
              [] source = "lazada" ->
                   SelectSeq(doc.imgs,
                       LAMBDA src : /\ \/ Contains(Lower(src), <<"slatic.net">>)
                                       \/ Contains(Lower(src), <<"lazada">>)
                                    /\ ~Contains(Lower(src), <<"sprite">>)
                                    /\ ~Contains(Lower(src), <<"logo">>))
              [] OTHER -> SelectSeq(doc.imgs, StartsWithHttp)
        manifest ==
            IF source = "amazon" /\ doc.landing.present /\ doc.landing.dyn.kind = "keys"
            THEN doc.landing.dyn.keys ELSE <<>>
    IN  SelectSeq(primary \o manifest \o <<og>>, LAMBDA i : i # <<>>)

FirstDistinct(cands) ==
    LET d == DedupeKeepFirst(cands) IN SubSeq(d, 1, Min(MAX_N, Len(d)))

\* C12 as stated: for every extractor, the non-empty entries of the returned
\* image list are the first (up to 4) distinct candidates in discovery order
\* (primary image, manifest keys, og:image), and no URL fills two slots.
C12_ImageOrderAndUniqueness ==
    (fout # Pending /\ ~fout[1].raised) =>
        LET got == SelectSeq(fout[1].imgs, LAMBDA i : i # <<>>) IN
        /\ \A i, j \in 1..Len(got) : i # j => got[i] # got[j]
        /\ got = FirstDistinct(DiscoveryCandidates(fin.source, fin.doc))

====
